---- MODULE Spec2Model ----
(***************************************************************************)
(* deploy2-cli (src/cli.js, the current snapshot at lines 215-425): one    *)
(* run of the command line program.  program() locates a configuration     *)
(* file, picks the effective configuration, checks the requested           *)
(* environment, fills in ref / repo / post-deploy, installs a filtering    *)
(* console.log and calls the external deploy routine.                      *)
(*                                                                         *)
(* Strings that the code inspects (file names, paths, log lines) are       *)
(* sequences of one-character strings, so that the regular expressions,    *)
(* path.basename, startsWith and replace are computed, not assumed.        *)
(***************************************************************************)
EXTENDS Naturals, Sequences, FiniteSets, TLC

(* ------------------------------------------------------------------ *)
(* Bounds of the model.                                                 *)
(* ------------------------------------------------------------------ *)
\* Number of directories on the search path (cwd and its ancestors below
\* the directory at which the upward walk stops).
MaxDepth == 2
\* Most files that exist on the search path when only the locate step runs.
MaxLocateFiles == 2
\* Most lines the deploy routine logs while it is pending.
MaxLogLines == 2

(* ------------------------------------------------------------------ *)
(* JavaScript values.                                                   *)
(* ------------------------------------------------------------------ *)
\* `undefined`: a missing property, an unset flag, a missing argument.
Undef == "undefined"
\* The empty string: falsy like `undefined`, yet a present value.
Empty == ""

\* !x for the values an EnvironmentSpec field, a flag or an argument takes.
Falsy(v) == v = Undef \/ v = Empty

(* ------------------------------------------------------------------ *)
(* Character strings.                                                   *)
(* ------------------------------------------------------------------ *)
EndsWith(s, t) ==
  /\ Len(s) >= Len(t)
  /\ \A i \in 1..Len(t) : s[Len(s) - Len(t) + i] = t[i]

StartsWith(s, t) ==
  /\ Len(s) >= Len(t)
  /\ \A i \in 1..Len(t) : s[i] = t[i]

\* Index of the last "/" of p, 0 when there is none.
LastSlash(p) ==
  LET idx == {i \in 1..Len(p) : p[i] = "/"}
  IN  IF idx = {} THEN 0 ELSE CHOOSE i \in idx : \A j \in idx : j <= i

\* path.basename
Basename(p) == SubSeq(p, LastSlash(p) + 1, Len(p))

\* path.resolve of a path against the working directory.
PathResolve(cwd, p) == IF Len(p) > 0 /\ p[1] = "/" THEN p ELSE cwd \o <<"/">> \o p

(* ------------------------------------------------------------------ *)
(* File names.                                                          *)
(* ------------------------------------------------------------------ *)
DeployRc     == <<".", "d", "e", "p", "l", "o", "y", "r", "c">>
DeployRcJs   == <<".", "d", "e", "p", "l", "o", "y", "r", "c", ".", "j", "s">>
DeployToml   == <<"d", "e", "p", "l", "o", "y", ".", "t", "o", "m", "l">>
EcosystemJs  == <<"e", "c", "o", "s", "y", "s", "t", "e", "m", ".", "c", "o", "n", "f", "i", "g", ".", "j", "s">>
EcosystemMjs == <<"e", "c", "o", "s", "y", "s", "t", "e", "m", ".", "c", "o", "n", "f", "i", "g", ".", "m", "j", "s">>
EcosystemJson == <<"e", "c", "o", "s", "y", "s", "t", "e", "m", ".", "j", "s", "o", "n">>
\* A file of no supported format, for --config.
DeployYaml   == <<"d", "e", "p", "l", "o", "y", ".", "y", "a", "m", "l">>

CONFIG_FILES == <<DeployRc, DeployRcJs, DeployToml>>
FALLBACK_CONFIG_FILES == <<EcosystemJs, EcosystemMjs, EcosystemJson>>

SeqToSet(s) == {s[i] : i \in 1..Len(s)}

\* The test applied to the whole path instead of the file's name.
isEcosystemConfigNoBasename(configPath) == configPath \in SeqToSet(FALLBACK_CONFIG_FILES)

\* FALLBACK_CONFIG_FILES.includes(path.basename(config))
isEcosystemConfig(configPath) == Basename(configPath) \in SeqToSet(FALLBACK_CONFIG_FILES)

\* The two lists spread in the other order.
JoyconFilesFallbackFirst == FALLBACK_CONFIG_FILES \o CONFIG_FILES

\* The `files` option of the JoyCon instance.
JoyconFiles == CONFIG_FILES \o FALLBACK_CONFIG_FILES

(* ------------------------------------------------------------------ *)
(* Directories and the file system.                                     *)
(* ------------------------------------------------------------------ *)
RECURSIVE Segments(_)
Segments(n) == IF n = 0 THEN << >> ELSE <<"/", "w">> \o Segments(n - 1)

\* The directory d levels above the working directory (d = 0: process.cwd()).
DirPath(d) == Segments(MaxDepth - d)
Cwd == DirPath(0)

Join(dir, name) == dir \o <<"/">> \o name

\* No path: what joycon reports when nothing is found (`undefined`, falsy).
NoPath == << >>

FileNames == SeqToSet(JoyconFiles) \cup {DeployYaml}
CandidatePaths == {Join(DirPath(d), n) : d \in 0..(MaxDepth - 1), n \in FileNames}

\* The file systems of a run: which candidate paths exist.
FileSystems(max) == {f \in SUBSET CandidatePaths : Cardinality(f) <= max}

\* The file systems with at most one candidate file.
SingleFileSystems == {{}} \cup {{p} : p \in CandidatePaths}

\* fs.existsSync
existsSync(files, filepath) == filepath \in files

(* ------------------------------------------------------------------ *)
(* Configuration data.                                                  *)
(* ------------------------------------------------------------------ *)
EnvNames == {"staging", "production"}
Fields == {"ref", "repo", "post-deploy", "host"}

MkSpec(ref, repo, post, host) ==
  ("ref" :> ref) @@ ("repo" :> repo) @@ ("post-deploy" :> post) @@ ("host" :> host)

\* The EnvironmentSpecs a configuration file may hold: every one of ref,
\* repo and post-deploy is absent, present and empty, or present with a value.
EnvSpecs ==
  {MkSpec(r, u, p, "h") : r \in {Undef, Empty, "release"},
                          u \in {Undef, Empty, "git@host:app.git"},
                          p \in {Undef, Empty, "make deploy"}}

\* The placeholder for `undefined` where an EnvironmentSpec is expected.
NoSpec == MkSpec(Undef, Undef, Undef, Undef)
\* An EnvironmentSpec that differs from every one above, to tell the top
\* level of an ecosystem file from its `deploy` field.
TopLevelSpec == MkSpec("top", "top", "top", "top")

EmptyMap == [e \in {} |-> NoSpec]
OneEnv(e, s) == [x \in {e} |-> s]

\* Loaded data: an object with environment keys at its top level and, when
\* hasDeploy, a `deploy` key holding a nested object; or raw file text.
ObjData(top, hasDeploy, deploy) ==
  [kind |-> "object", top |-> top, hasDeploy |-> hasDeploy, deploy |-> deploy]
RawData == [kind |-> "raw", top |-> EmptyMap, hasDeploy |-> FALSE, deploy |-> EmptyMap]
NoData == [kind |-> "undefined", top |-> EmptyMap, hasDeploy |-> FALSE, deploy |-> EmptyMap]

WellFormedData ==
       {ObjData(EmptyMap, FALSE, EmptyMap), ObjData(EmptyMap, TRUE, EmptyMap)}
  \cup {ObjData(OneEnv(e, s), FALSE, EmptyMap) : e \in EnvNames, s \in EnvSpecs}
  \cup {ObjData(EmptyMap, TRUE, OneEnv("staging", s)) : s \in EnvSpecs}
  \cup {ObjData(OneEnv("staging", TopLevelSpec), TRUE, OneEnv("staging", s)) : s \in EnvSpecs}

\* What a file holds: text that its format's parser accepts as `obj`, or
\* text that the parser rejects.
FileContents ==
  {[ok |-> TRUE, obj |-> d] : d \in WellFormedData} \cup {[ok |-> FALSE, obj |-> NoData]}

\* A configuration as program() sees it: `undefined`, or an object with
\* its own keys and the environments among them.
NoConfig == [defined |-> FALSE, keys |-> {}, envs |-> EmptyMap]

\* `data` itself.
TopLevel(d) ==
  CASE d.kind = "object" ->
         [defined |-> TRUE,
          keys |-> (DOMAIN d.top) \cup (IF d.hasDeploy THEN {"deploy"} ELSE {}),
          envs |-> d.top]
    [] d.kind = "raw" -> [defined |-> TRUE, keys |-> {"0"}, envs |-> EmptyMap]
    [] OTHER -> NoConfig

\* `data.deploy`.
DeployField(d) ==
  IF d.kind = "object" /\ d.hasDeploy
    THEN [defined |-> TRUE, keys |-> DOMAIN d.deploy, envs |-> d.deploy]
    ELSE NoConfig

(* ------------------------------------------------------------------ *)
(* Format loaders (joycon.addLoader, in registration order).            *)
(* ------------------------------------------------------------------ *)
\* /^\.[^.]*rc$/
RcTest(s) ==
  /\ Len(s) >= 3
  /\ s[1] = "."
  /\ \A i \in 2..(Len(s) - 2) : s[i] # "."
  /\ EndsWith(s, <<"r", "c">>)

\* /\.toml$/
TomlTest(s) == EndsWith(s, <<".", "t", "o", "m", "l">>)

\* /\.json$/
JsonTest(s) == EndsWith(s, <<".", "j", "s", "o", "n">>)

\* /\.m?js$/
JsTest(s) == EndsWith(s, <<".", "j", "s">>) \/ EndsWith(s, <<".", "m", "j", "s">>)

Loaders == <<"rc", "toml", "json", "js">>
NoLoader == "none"

LoaderTest(loader, s) ==
  CASE loader = "rc" -> RcTest(s)
    [] loader = "toml" -> TomlTest(s)
    [] loader = "json" -> JsonTest(s)
    [] loader = "js" -> JsTest(s)
    [] OTHER -> FALSE

\* joycon.findLoader(filepath): the first registered loader whose `test`
\* matches the string it is given, which is the file path.
findLoader(filepath) ==
  LET hits == {i \in 1..Len(Loaders) : LoaderTest(Loaders[i], filepath)}
  IN  IF hits = {} THEN NoLoader
      ELSE Loaders[CHOOSE i \in hits : \A j \in hits : i <= j]

\* loader.loadSync: parseJSON, toml.parse or require on the file; each
\* throws on text its format rejects.
LoaderLoadSync(content) ==
  IF content.ok THEN [threw |-> FALSE, data |-> content.obj]
  ELSE [threw |-> TRUE, data |-> NoData]

\* What loadConfig hands back: {} (no path, no data), or path and data;
\* threw when the loader threw instead of returning.
NotLocated == [path |-> NoPath, data |-> NoData, threw |-> FALSE]
Located(filepath, loaded) ==
  [path |-> IF loaded.threw THEN NoPath ELSE filepath,
   data |-> loaded.data, threw |-> loaded.threw]

\* joycon's search of one directory: the first of `files` that exists.
FirstExisting(files, dir, names) ==
  LET hits == {i \in 1..Len(names) : existsSync(files, Join(dir, names[i]))}
  IN  IF hits = {} THEN NoPath
      ELSE Join(dir, names[CHOOSE i \in hits : \A j \in hits : i <= j])

\* joycon.resolve: the working directory first, then each ancestor in turn.
RECURSIVE ResolveFrom(_, _)
ResolveFrom(files, d) ==
  IF d >= MaxDepth THEN NoPath
  ELSE LET found == FirstExisting(files, DirPath(d), JoyconFiles)
       IN  IF found # NoPath THEN found ELSE ResolveFrom(files, d + 1)

\* joycon.loadSync(): resolve, then the matching loader; a file that no
\* loader matches and that is neither .js nor .json is returned as raw text.
JoyconLoadSync(files, content) ==
  LET filepath == ResolveFrom(files, 0)
  IN  IF filepath = NoPath THEN NotLocated
      ELSE IF findLoader(filepath) # NoLoader
        THEN Located(filepath, LoaderLoadSync(content))
        ELSE Located(filepath, [threw |-> FALSE, data |-> RawData])

\* loadConfig(filepath)
loadConfig(flag, files, content) ==
  IF flag = NoPath THEN JoyconLoadSync(files, content)
  ELSE LET filepath == PathResolve(Cwd, flag)
       IN  IF ~existsSync(files, filepath) THEN NotLocated
           ELSE IF findLoader(filepath) = NoLoader THEN NotLocated
           ELSE Located(filepath, LoaderLoadSync(content))

(* ------------------------------------------------------------------ *)
(* Environment normalization (program, the fallbacks).                  *)
(* ------------------------------------------------------------------ *)
\* git.branch() and git.remoteUrl(): a string, or an exception when the
\* working directory is no repository.
BranchResults ==
  {[threw |-> FALSE, value |-> v] : v \in {"master", Empty}}
    \cup {[threw |-> TRUE, value |-> Undef]}
RemoteResults ==
  {[threw |-> FALSE, value |-> v] : v \in {"https://host/app.git", Empty}}
    \cup {[threw |-> TRUE, value |-> Undef]}

\* ['npm install', 'npm run build', 'pm2 startOrRestart ...'].join(' && ')
PostDeployDefault == "npm install && npm run build && pm2 startOrRestart ecosystem.config.js"

\* The test with the guard lost: the fallback always applies.
NeedsRefAlways(spec) == TRUE

\* if (!envConfig.ref) envConfig.ref = ref
NeedsRef(spec) == Falsy(spec["ref"])
SetRef(spec, ref) == IF NeedsRef(spec) THEN [spec EXCEPT !["ref"] = ref] ELSE spec

\* if (!envConfig.repo) envConfig.repo = repo
NeedsRepo(spec) == Falsy(spec["repo"])
SetRepo(spec, repo) == IF NeedsRepo(spec) THEN [spec EXCEPT !["repo"] = repo] ELSE spec

\* if (!envConfig['post-deploy']) envConfig['post-deploy'] = ...
NeedsPostDeploy(spec) == Falsy(spec["post-deploy"])
SetPostDeploy(spec) ==
  IF NeedsPostDeploy(spec) THEN [spec EXCEPT !["post-deploy"] = PostDeployDefault] ELSE spec

\* The three fallbacks in the order program() applies them, for a working
\* tree whose branch and remote URL are `branch` and `remote`.
Normalize(spec, branch, remote) == SetPostDeploy(SetRepo(SetRef(spec, branch), remote))

(* ------------------------------------------------------------------ *)
(* The console.log proxy.                                               *)
(* ------------------------------------------------------------------ *)
LOG_PREFIX == <<"-", "-", ">">>
MsgDeploying ==
  <<"D", "e", "p", "l", "o", "y", "i", "n", "g", " ", "t", "o", " ", "%", "s", " ",
    "e", "n", "v", "i", "r", "o", "n", "m", "e", "n", "t">>
MsgOnHost == <<"o", "n", " ", "h", "o", "s", "t", " ", "%", "s">>

\* The lines the deploy routine may pass to console.log.
LogLines ==
  { LOG_PREFIX \o MsgDeploying,
    LOG_PREFIX \o MsgOnHost,
    LOG_PREFIX \o <<" ">> \o MsgDeploying,
    LOG_PREFIX \o MsgOnHost \o <<"!">>,
    MsgDeploying,
    SubSeq(MsgOnHost, 1, 3) \o LOG_PREFIX \o SubSeq(MsgOnHost, 4, Len(MsgOnHost)),
    << >> }

\* String.prototype.replace(pattern, ''): the first occurrence removed.
RemoveFirst(s, t) ==
  LET at == {i \in 1..(Len(s) - Len(t) + 1) : SubSeq(s, i, i + Len(t) - 1) = t}
  IN  IF at = {} THEN s
      ELSE LET i == CHOOSE k \in at : \A j \in at : k <= j
           IN  SubSeq(s, 1, i - 1) \o SubSeq(s, i + Len(t), Len(s))

\* What a call of console.log leaves on the terminal.
NoOutput == [stream |-> "none", icon |-> "none", text |-> << >>, arg |-> Undef]
\* console.error(emoji(icon), format(msg, arg))
Formatted(icon, msg, arg) == [stream |-> "stderr", icon |-> icon, text |-> msg, arg |-> arg]
\* The native console.log.
Printed(line) == [stream |-> "stdout", icon |-> "none", text |-> line, arg |-> Undef]

\* The proxy without its test of the prefix.
LogProxyNoPrefixTest(line, env, spec) ==
  LET msg == RemoveFirst(line, LOG_PREFIX)
  IN  IF msg = MsgDeploying THEN Formatted("truck", msg, env)
      ELSE IF msg = MsgOnHost THEN Formatted("gear", msg, spec["host"])
      ELSE NoOutput

\* The function assigned to console.log while the deploy routine runs.
LogProxy(line, env, spec) ==
  IF ~StartsWith(line, LOG_PREFIX) THEN NoOutput
  ELSE LET msg == RemoveFirst(line, LOG_PREFIX)
       IN  IF msg = MsgDeploying THEN Formatted("truck", msg, env)
           ELSE IF msg = MsgOnHost THEN Formatted("gear", msg, spec["host"])
           ELSE NoOutput

\* const { log } = console.log: the property `log` of the function that
\* console.log holds; a function has no such property.
LogPropertyOf(fn) == Undef

(* ------------------------------------------------------------------ *)
(* State of one run.                                                    *)
(* ------------------------------------------------------------------ *)
VARIABLES
  env,          \* cli.input[0]
  flagConfig,   \* cli.flags.config (NoPath when not given)
  files,        \* the paths that exist on disk
  pc,           \* where program() stands
  configPath,   \* path of the located file
  data,         \* the data as loaded from the file
  config,       \* the effective configuration
  envConfig,    \* config[env], the object the fallbacks assign to
  consoleLog,   \* what console.log holds: "native", "proxy" or Undef
  savedLog,     \* the `log` constant of program()
  vcsCalls,     \* the git queries made so far
  deployCalled, \* whether deploy() has been called
  deployConfig, \* the configuration deploy() was called with
  report,       \* the message the run ended with
  exitCode,     \* the exit status, once pc = "exited"
  nLogged,      \* lines the deploy routine has logged
  lastLine,     \* the last of them
  lastOutput,   \* what console.log did with it
  thrown        \* the exception that ended program(), "none" if none did

vars ==
  <<env, flagConfig, files, pc, configPath, data, config, envConfig, consoleLog,
    savedLog, vcsCalls, deployCalled, deployConfig, report, exitCode, nLogged,
    lastLine, lastOutput, thrown>>

inputVars == <<env, flagConfig, files>>
loadVars == <<configPath, data>>
logVars == <<nLogged, lastLine, lastOutput>>
deployVars == <<deployCalled, deployConfig>>

\* `deploy2 [env] ... [-c path]`
EnvArgs == EnvNames \cup {Undef}
ConfigFlags == {NoPath, DeployRc, DeployToml, EcosystemJson, DeployYaml}

InitWith(fileSystems) ==
  /\ env \in EnvArgs
  /\ flagConfig \in ConfigFlags
  /\ files \in fileSystems
  /\ pc = "start"
  /\ configPath = NoPath
  /\ data = NoData
  /\ config = NoConfig
  /\ envConfig = NoSpec
  /\ consoleLog = "native"
  /\ savedLog = Undef
  /\ vcsCalls = {}
  /\ deployCalled = FALSE
  /\ deployConfig = NoConfig
  /\ report = "none"
  /\ exitCode = 0
  /\ nLogged = 0
  /\ lastLine = << >>
  /\ lastOutput = NoOutput
  /\ thrown = "none"

Init == InitWith(SingleFileSystems)

\* logError(...); process.exit(1)
Finish(message, code) ==
  /\ pc' = "exited"
  /\ report' = message
  /\ exitCode' = code

Exit(message, code) == Finish(message, code) /\ UNCHANGED thrown

\* An exception thrown while program() runs synchronously: program() is
\* no async function, so no promise carries it to the .catch handler; node
\* prints it and exits with status 1.
Uncaught(exception) == Finish("Uncaught exception", 1) /\ thrown' = exception

\* The check of configPath left out.
ConfigMissingUnchecked(located) == FALSE

\* !configPath
ConfigMissing(located) == located.path = NoPath

\* program, from its first line to the check of configPath.
ProgramLoadConfig ==
  /\ pc = "start"
  /\ \E content \in FileContents :
       LET located == loadConfig(flagConfig, files, content)
       IN  IF Falsy(env)
             THEN /\ Exit("Missing required argument: env", 1)
                  /\ UNCHANGED loadVars
           ELSE IF located.threw
             THEN /\ Uncaught("SyntaxError")
                  /\ UNCHANGED loadVars
           ELSE IF ConfigMissing(located)
             THEN /\ Exit("Configuration file not found.", 1)
                  /\ UNCHANGED loadVars
           ELSE /\ configPath' = located.path
                /\ data' = located.data
                /\ pc' = "located"
                /\ UNCHANGED <<report, exitCode, thrown>>
  /\ UNCHANGED <<inputVars, config, envConfig, consoleLog, savedLog, vcsCalls,
                 deployVars, logVars>>

\* isEcosystemConfig(configPath) ? data.deploy : data
EffectiveConfig(path, d) == IF isEcosystemConfig(path) THEN DeployField(d) ELSE TopLevel(d)

\* !config || Object.keys(config).length <= 0
NoEnvironments(c) == ~c.defined \/ c.keys = {}

\* program, the choice of the effective configuration.
ProgramSelectConfig ==
  /\ pc = "located"
  /\ LET c == EffectiveConfig(configPath, data)
     IN  IF NoEnvironments(c)
           THEN /\ Exit("Malformed configuration file. No environments specified.", 1)
                /\ UNCHANGED config
           ELSE /\ config' = c
                /\ pc' = "selected"
                /\ UNCHANGED <<report, exitCode, thrown>>
  /\ UNCHANGED <<inputVars, loadVars, envConfig, consoleLog, savedLog, vcsCalls,
                 deployVars, logVars>>

\* config[env]
Lookup(c, e) == IF e \in DOMAIN c.envs THEN c.envs[e] ELSE NoSpec

\* The check of config[env] left out.
EnvMissingUnchecked(c, e) == FALSE

\* !config[env]
EnvMissing(c, e) == e \notin DOMAIN c.envs

\* program, the check for the environment's definition.
ProgramCheckEnv ==
  /\ pc = "selected"
  /\ IF EnvMissing(config, env)
       THEN /\ Exit("environment is not defined inside configuration file", 1)
            /\ UNCHANGED envConfig
       ELSE /\ envConfig' = Lookup(config, env)
            /\ pc' = "checked"
            /\ UNCHANGED <<report, exitCode, thrown>>
  /\ UNCHANGED <<inputVars, loadVars, config, consoleLog, savedLog, vcsCalls,
                 deployVars, logVars>>

\* program, the `<env>.ref` fallback.
ProgramSetRef ==
  /\ pc = "checked"
  /\ IF NeedsRef(envConfig)
       THEN \E r \in BranchResults :
              /\ vcsCalls' = vcsCalls \cup {"branch"}
              /\ IF r.threw
                   THEN Uncaught("Error") /\ UNCHANGED envConfig
                   ELSE /\ envConfig' = SetRef(envConfig, r.value)
                        /\ pc' = "refSet"
                        /\ UNCHANGED <<report, exitCode, thrown>>
       ELSE /\ pc' = "refSet"
            /\ UNCHANGED <<envConfig, vcsCalls, report, exitCode, thrown>>
  /\ UNCHANGED <<inputVars, loadVars, config, consoleLog, savedLog, deployVars, logVars>>

\* program, the `<env>.repo` fallback.
ProgramSetRepo ==
  /\ pc = "refSet"
  /\ IF NeedsRepo(envConfig)
       THEN \E r \in RemoteResults :
              /\ vcsCalls' = vcsCalls \cup {"remoteUrl"}
              /\ IF r.threw
                   THEN Uncaught("Error") /\ UNCHANGED envConfig
                   ELSE /\ envConfig' = SetRepo(envConfig, r.value)
                        /\ pc' = "repoSet"
                        /\ UNCHANGED <<report, exitCode, thrown>>
       ELSE /\ pc' = "repoSet"
            /\ UNCHANGED <<envConfig, vcsCalls, report, exitCode, thrown>>
  /\ UNCHANGED <<inputVars, loadVars, config, consoleLog, savedLog, deployVars, logVars>>

\* program, the post-deploy action.
ProgramSetPostDeploy ==
  /\ pc = "repoSet"
  /\ envConfig' = SetPostDeploy(envConfig)
  /\ pc' = "normalized"
  /\ UNCHANGED <<inputVars, loadVars, config, consoleLog, savedLog, vcsCalls,
                 deployVars, report, exitCode, thrown, logVars>>

\* The configuration object after the assignments to config[env].
ConfigWith(c, e, spec) ==
  IF e \in DOMAIN c.envs THEN [c EXCEPT !.envs = [c.envs EXCEPT ![e] = spec]] ELSE c

\* program, from `const { log } = console.log` to the call of deploy().
ProgramInvokeDeploy ==
  /\ pc = "normalized"
  /\ savedLog' = LogPropertyOf(consoleLog)
  /\ consoleLog' = "proxy"
  /\ deployCalled' = TRUE
  /\ deployConfig' = ConfigWith(config, env, envConfig)
  /\ pc' = "deploying"
  /\ UNCHANGED <<inputVars, loadVars, config, envConfig, vcsCalls, report, exitCode,
                 thrown, logVars>>

\* console.log(line), whatever console.log holds.
ConsoleLogCall(line) ==
  CASE consoleLog = "proxy" -> LogProxy(line, env, envConfig)
    [] consoleLog = "native" -> Printed(line)
    [] OTHER -> [stream |-> "TypeError", icon |-> "none", text |-> line, arg |-> Undef]

\* The deploy routine logs a line while it is pending.
DeployLogs ==
  /\ pc = "deploying"
  /\ nLogged < MaxLogLines
  /\ \E line \in LogLines :
       /\ lastLine' = line
       /\ lastOutput' = ConsoleLogCall(line)
  /\ nLogged' = nLogged + 1
  /\ UNCHANGED <<inputVars, loadVars, config, envConfig, consoleLog, savedLog, vcsCalls,
                 deployVars, pc, report, exitCode, thrown>>

DeployOutcomes == {"fulfilled", "ValidationError", "Error"}

\* The deploy promise settles: pFinally's callback runs (console.log = log),
\* then the .then or the .catch handler of the top level.
DeploySettles ==
  /\ pc = "deploying"
  /\ consoleLog' = savedLog
  /\ \E outcome \in DeployOutcomes :
       CASE outcome = "fulfilled" -> Exit("Success", 0)
         [] outcome = "ValidationError" -> Exit("Malformed configuration file.", 1)
         [] OTHER -> Exit("Deploy error", 1)
  /\ UNCHANGED <<inputVars, loadVars, config, envConfig, savedLog, vcsCalls, deployVars,
                 logVars>>

Next ==
  \/ ProgramLoadConfig
  \/ ProgramSelectConfig
  \/ ProgramCheckEnv
  \/ ProgramSetRef
  \/ ProgramSetRepo
  \/ ProgramSetPostDeploy
  \/ ProgramInvokeDeploy
  \/ DeployLogs
  \/ DeploySettles

Spec == Init /\ [][Next]_vars

\* The locate step alone, over file systems with more files.
InitLocate == InitWith(FileSystems(MaxLocateFiles))
NextLocate == ProgramLoadConfig
SpecLocate == InitLocate /\ [][NextLocate]_vars

(* ------------------------------------------------------------------ *)
(* Properties.                                                          *)
(* ------------------------------------------------------------------ *)
\* The deploy routine has settled.
Settled == deployCalled /\ pc = "exited"

\* program() has looked up config[env] and found it.
EnvChecked == pc \in {"checked", "refSet", "repoSet", "normalized", "deploying"} \/ deployCalled

\* The three fallbacks have run.
Normalized == pc \in {"normalized", "deploying"} \/ deployCalled

\* The EnvironmentSpec of the requested environment as the file holds it.
OrigEnvConfig == Lookup(EffectiveConfig(configPath, data), env)

Defaulted == {"ref", "repo", "post-deploy"}

\* C1: once the deploy routine has settled, console.log is again the
\* function it was before the filtering sink was installed.
C1_ConsoleLogRestored == Settled => consoleLog = "native"

\* C2: when the deploy routine is invoked, ref, repo and post-deploy of the
\* requested environment are non-empty, whatever the VCS queries returned.
C2_NonEmptyAtDeploy ==
  deployCalled => \A f \in Defaulted : ~Falsy(Lookup(deployConfig, env)[f])

\* C3 as stated: when ref, repo and post-deploy are all present in the
\* file's EnvironmentSpec, normalizing it once or twice leaves every field
\* with its original value.
C3_PresentUnchanged ==
  (Normalized /\ \A f \in Defaulted : OrigEnvConfig[f] # Undef)
    => /\ envConfig = OrigEnvConfig
       /\ \A b \in BranchResults, r \in RemoteResults :
            Normalize(envConfig, b.value, r.value) = envConfig

\* C3 as amended: when ref, repo and post-deploy are all present and
\* non-empty, normalizing once or twice leaves every field with its
\* original value, and no VCS query is made.
C3_NonEmptyUnchanged ==
  (Normalized /\ \A f \in Defaulted : ~Falsy(OrigEnvConfig[f]))
    => /\ envConfig = OrigEnvConfig
       /\ vcsCalls = {}
       /\ \A b \in BranchResults, r \in RemoteResults :
            Normalize(envConfig, b.value, r.value) = envConfig

\* A complete EnvironmentSpec has been normalized and handed to deploy().
C3_Witness ==
  /\ deployCalled
  /\ \A f \in Defaulted : ~Falsy(OrigEnvConfig[f])
  /\ Lookup(deployConfig, env) = OrigEnvConfig

\* The search finds no file: no candidate on the search path, or nothing
\* loadable at the explicit path.
NothingFound ==
  IF flagConfig = NoPath
    THEN \A d \in 0..(MaxDepth - 1), i \in 1..Len(JoyconFiles) :
           Join(DirPath(d), JoyconFiles[i]) \notin files
    ELSE \/ PathResolve(Cwd, flagConfig) \notin files
         \/ findLoader(PathResolve(Cwd, flagConfig)) = NoLoader

\* C4: when no configuration file is found, the run ends with the
\* configuration-not-found error and status 1, and neither VCS query nor
\* the deploy routine is ever called.
C4_NotFoundExits ==
  (~Falsy(env) /\ NothingFound)
    => /\ vcsCalls = {}
       /\ ~deployCalled
       /\ pc \in {"start", "exited"}
       /\ pc = "exited" => report = "Configuration file not found." /\ exitCode = 1

C4_Witness ==
  /\ pc = "exited"
  /\ report = "Configuration file not found."
  /\ flagConfig = NoPath
  /\ files # {}

SelectedPath ==
  IF flagConfig = NoPath THEN ResolveFrom(files, 0) ELSE PathResolve(Cwd, flagConfig)

\* A dot-rc file or a .json file, by its name.
JsonWithCommentsName(name) == RcTest(name) \/ JsonTest(name)

\* C6: when the located JSON-with-comments file (dot-rc or .json) is
\* malformed, the parse failure is reported as a "malformed configuration
\* file" error and the process exits with status 1.
C6_ParseFailureReported ==
  (thrown = "SyntaxError" /\ JsonWithCommentsName(Basename(SelectedPath)))
    => /\ pc = "exited"
       /\ report = "Malformed configuration file."
       /\ exitCode = 1

\* The order of precedence that the claim gives.
ClaimedOrder ==
  <<DeployRc, DeployRcJs, DeployToml, EcosystemJs, EcosystemMjs, EcosystemJson>>

\* C7: with no explicit path the file selected is in the nearest directory,
\* from the working directory upward, that holds a candidate, and is the
\* first candidate there in the order .deployrc, .deployrc.js, deploy.toml,
\* ecosystem.config.js, ecosystem.config.mjs, ecosystem.json; .deployrc wins
\* over deploy.toml in the same directory.
C7_Precedence ==
  (flagConfig = NoPath /\ pc = "located")
    => /\ \E d \in 0..(MaxDepth - 1), i \in 1..Len(ClaimedOrder) :
            /\ configPath = Join(DirPath(d), ClaimedOrder[i])
            /\ configPath \in files
            /\ \A j \in 1..(i - 1) : Join(DirPath(d), ClaimedOrder[j]) \notin files
            /\ \A e \in 0..(d - 1), j \in 1..Len(ClaimedOrder) :
                 Join(DirPath(e), ClaimedOrder[j]) \notin files
       /\ \A d \in 0..(MaxDepth - 1) :
            ( /\ Join(DirPath(d), DeployRc) \in files
              /\ Join(DirPath(d), DeployToml) \in files
              /\ SubSeq(configPath, 1, LastSlash(configPath) - 1) = DirPath(d) )
              => configPath = Join(DirPath(d), DeployRc)

C7_Witness ==
  /\ flagConfig = NoPath
  /\ pc = "located"
  /\ Join(Cwd, DeployRc) \in files
  /\ Join(Cwd, DeployToml) \in files
  /\ configPath = Join(Cwd, DeployRc)

\* The names of the fallback ecosystem files.
EcosystemNames == {EcosystemJs, EcosystemMjs, EcosystemJson}

\* The object that the claim says is the configuration.
ClaimedConfig ==
  IF Basename(configPath) \in EcosystemNames THEN DeployField(data) ELSE TopLevel(data)

\* C8: when the located file is one of the ecosystem files, the requested
\* environment is looked up in, normalized in and passed to deploy() with
\* the nested `deploy` field of the loaded data; for every other file it is
\* the top-level object.  (`host` is a field the fallbacks leave alone.)
C8_EcosystemNested ==
  /\ pc \in {"selected", "checked", "refSet", "repoSet", "normalized", "deploying"}
       => config = ClaimedConfig
  /\ EnvChecked
       => /\ env \in DOMAIN ClaimedConfig.envs
          /\ envConfig["host"] = ClaimedConfig.envs[env]["host"]
  /\ deployCalled
       => /\ deployConfig.keys = ClaimedConfig.keys
          /\ DOMAIN deployConfig.envs = DOMAIN ClaimedConfig.envs
          /\ deployConfig.envs[env]["host"] = ClaimedConfig.envs[env]["host"]
          /\ \A f \in Defaulted :
               ~Falsy(ClaimedConfig.envs[env][f])
                 => deployConfig.envs[env][f] = ClaimedConfig.envs[env][f]

C8_Witness ==
  /\ deployCalled
  /\ Basename(configPath) = EcosystemJson
  /\ "staging" \in DOMAIN data.top
  /\ deployConfig.envs[env]["host"] = "h"

\* The names of the formats that the claim lists.
SupportedName(name) == RcTest(name) \/ TomlTest(name) \/ JsonTest(name) \/ JsTest(name)

\* C9: an explicit path is resolved against the working directory; a
\* missing file yields nothing; an existing file whose name is of a
\* supported format (dot-rc, .toml, .json, .js/.mjs) yields that absolute
\* path with the loaded data; an existing file of no supported format
\* yields nothing.
C9_ExplicitPath ==
  (flagConfig # NoPath /\ ~Falsy(env) /\ pc # "start" /\ thrown # "SyntaxError")
    => LET filepath == Cwd \o <<"/">> \o flagConfig
       IN  IF filepath \in files /\ SupportedName(flagConfig)
             THEN configPath = filepath /\ data \in WellFormedData
             ELSE configPath = NoPath /\ report = "Configuration file not found."

\* The last line logged, without its first three characters.
LastMessage == SubSeq(lastLine, Len(LOG_PREFIX) + 1, Len(lastLine))
LastRecognized ==
  /\ StartsWith(lastLine, LOG_PREFIX)
  /\ LastMessage \in {MsgDeploying, MsgOnHost}

\* C10: every line the deploy routine logs is handled without error; a
\* line that begins with --> and is one of the two progress messages is
\* written again, formatted, to the error stream; every other line gives
\* no output.
C10_SinkFilters ==
  nLogged > 0
    => /\ lastOutput.stream \in {"none", "stderr"}
       /\ LastRecognized
            => /\ lastOutput.stream = "stderr"
               /\ lastOutput.text = LastMessage
               /\ lastOutput.icon \in {"truck", "gear"}
               /\ lastOutput.arg \in {env, envConfig["host"]}
       /\ ~LastRecognized => lastOutput = NoOutput

C10_Witness ==
  /\ pc = "deploying"
  /\ consoleLog = "proxy"
  /\ nLogged = MaxLogLines
  /\ lastLine = LOG_PREFIX \o MsgOnHost
  /\ lastOutput = Formatted("gear", MsgOnHost, "h")

====
